---- MODULE Spec2Model ----
(***************************************************************************)
(* A model of lys (src/lys/__init__.py): the shorthand parser              *)
(* process_shortcut, the attribute-call Node.__call__, the child           *)
(* attachment Node.__truediv__ and render.                                 *)
(*                                                                         *)
(* A Python str is a sequence of one-character strings.  A Python value    *)
(* is a record [t |-> kind, v |-> payload].  A Node is an object of the    *)
(* heap `nodes` (its index is its identity), a generator an object of the  *)
(* heap `gens`.                                                            *)
(***************************************************************************)
EXTENDS Integers, Sequences, FiniteSets, TLC

VARIABLES nodes, gens, last

vars == <<nodes, gens, last>>

(***************************************************************************)
(* Characters and strings                                                  *)
(***************************************************************************)

\* The characters the model uses, in code point order (sorted() and str
\* comparison order strings by code point).
CHARS ==
  << " ", "\"", "#", "&", "'", ",", "-", ".", "/", "0", "1", "2", "7", ";", "<",
     "=", ">", "A", "F", "N", "T", "[", "]", "_",
     "a", "b", "c", "d", "e", "f", "g", "h", "i", "j", "k", "l", "m",
     "n", "o", "p", "q", "r", "s", "t", "u", "v", "w", "x", "y", "z" >>

Ord(c) == CHOOSE i \in 1..Len(CHARS) : CHARS[i] = c

Letters ==
  { "A", "F", "N", "T",
    "a", "b", "c", "d", "e", "f", "g", "h", "i", "j", "k", "l", "m",
    "n", "o", "p", "q", "r", "s", "t", "u", "v", "w", "x", "y", "z" }
Digits == {"0", "1", "2", "7"}

\* str.count(c)
RECURSIVE Count(_, _)
Count(s, c) ==
  IF s = <<>> THEN 0
  ELSE (IF Head(s) = c THEN 1 ELSE 0) + Count(Tail(s), c)

\* c in s
Contains(s, c) == \E i \in 1..Len(s) : s[i] = c

\* s.strip(c) for a single character c
RECURSIVE LStrip(_, _)
LStrip(s, c) == IF s # <<>> /\ Head(s) = c THEN LStrip(Tail(s), c) ELSE s

RECURSIVE RStrip(_, _)
RStrip(s, c) ==
  IF s # <<>> /\ s[Len(s)] = c THEN RStrip(SubSeq(s, 1, Len(s) - 1), c) ELSE s

Strip(s, c) == RStrip(LStrip(s, c), c)

\* s.replace(a, b) for single characters
Replace(s, a, b) == [i \in 1..Len(s) |-> IF s[i] = a THEN b ELSE s[i]]

\* s.split(' '): every single space separates, '' gives ['']
RECURSIVE SplitFrom(_, _, _)
SplitFrom(s, cur, acc) ==
  IF s = <<>> THEN Append(acc, cur)
  ELSE IF Head(s) = " " THEN SplitFrom(Tail(s), <<>>, Append(acc, cur))
  ELSE SplitFrom(Tail(s), Append(cur, Head(s)), acc)

Split(s) == SplitFrom(s, <<>>, <<>>)

\* sep.join(parts)
RECURSIVE Join(_, _)
Join(parts, sep) ==
  IF parts = <<>> THEN <<>>
  ELSE IF Len(parts) = 1 THEN parts[1]
  ELSE parts[1] \o sep \o Join(Tail(parts), sep)

\* filter(None, parts)
RECURSIVE FilterNonEmpty(_)
FilterNonEmpty(parts) ==
  IF parts = <<>> THEN <<>>
  ELSE IF Head(parts) = <<>> THEN FilterNonEmpty(Tail(parts))
  ELSE <<Head(parts)>> \o FilterNonEmpty(Tail(parts))

\* lexicographic order of two strings by code point
RECURSIVE StrLess(_, _)
StrLess(a, b) ==
  IF b = <<>> THEN FALSE
  ELSE IF a = <<>> THEN TRUE
  ELSE IF Head(a) = Head(b) THEN StrLess(Tail(a), Tail(b))
  ELSE Ord(Head(a)) < Ord(Head(b))

\* sorted(S) for a set of strings
RECURSIVE Sorted(_)
Sorted(S) ==
  IF S = {} THEN <<>>
  ELSE LET m == CHOOSE x \in S : \A y \in S \ {x} : StrLess(x, y)
       IN <<m>> \o Sorted(S \ {m})

\* html.escape(s, quote=True), one character
EscapeChar(c) ==
  CASE c = "&" -> <<"&", "a", "m", "p", ";">>
    [] c = "<" -> <<"&", "l", "t", ";">>
    [] c = ">" -> <<"&", "g", "t", ";">>
    [] c = "\"" -> <<"&", "q", "u", "o", "t", ";">>
    [] c = "'" -> <<"&", "#", "x", "2", "7", ";">>
    [] OTHER -> <<c>>

\* html.escape(s, quote=False): the quotes are left as they are.
html_escape_noquote(s) ==
  LET E(c) == IF c \in {"\"", "'"} THEN <<c>> ELSE EscapeChar(c)
      F[i \in 0..Len(s)] == IF i = 0 THEN <<>> ELSE F[i - 1] \o E(s[i])
  IN F[Len(s)]

RECURSIVE html_escape(_)
html_escape(s) ==
  IF s = <<>> THEN <<>> ELSE EscapeChar(Head(s)) \o html_escape(Tail(s))

(***************************************************************************)
(* Python values                                                           *)
(***************************************************************************)

None == [t |-> "none", v |-> 0]
StrV(s) == [t |-> "str", v |-> s]
IntV(n) == [t |-> "int", v |-> n]
BoolV(b) == [t |-> "bool", v |-> b]
ListV(xs) == [t |-> "list", v |-> xs]
TupleV(xs) == [t |-> "tuple", v |-> xs]
RawV(s) == [t |-> "raw", v |-> s]
NodeV(n) == [t |-> "node", v |-> n]
GenV(g) == [t |-> "gen", v |-> g]
DictV(d) == [t |-> "dict", v |-> d]

\* bool(x)
Truthy(x) ==
  CASE x.t = "none" -> FALSE
    [] x.t = "str" -> x.v # <<>>
    [] x.t = "int" -> x.v # 0
    [] x.t = "bool" -> x.v
    [] x.t = "list" -> x.v # <<>>
    [] x.t = "tuple" -> x.v # <<>>
    [] x.t = "dict" -> DOMAIN x.v # {}
    [] OTHER -> TRUE

\* str(x) of an attribute value; a list holds strings without quotes in them
PyStr(x) ==
  CASE x.t = "str" -> x.v
    [] x.t = "raw" -> x.v
    [] x.t = "int" -> IF x.v = 0 THEN <<"0">> ELSE <<"1">>
    [] x.t = "bool" -> IF x.v THEN <<"T", "r", "u", "e">>
                       ELSE <<"F", "a", "l", "s", "e">>
    [] x.t = "list" ->
         <<"[">> \o Join([i \in 1..Len(x.v) |-> <<"'">> \o x.v[i] \o <<"'">>],
                         <<",", " ">>) \o <<"]">>
    [] OTHER -> <<"N", "o", "n", "e">>

\* A dict as a function from keys (strings) to values.
EmptyDict == [k \in {} |-> None]
DictSet(d, k, x) == [j \in DOMAIN d \cup {k} |-> IF j = k THEN x ELSE d[j]]
DictDel(d, k) == [j \in DOMAIN d \ {k} |-> d[j]]
SetDefault(d, k, x) == IF k \in DOMAIN d THEN d ELSE DictSet(d, k, x)
\* d.update(e)
DictUpdate(d, e) ==
  [j \in DOMAIN d \cup DOMAIN e |-> IF j \in DOMAIN e THEN e[j] ELSE d[j]]

(***************************************************************************)
(* The shorthand parser                                                    *)
(***************************************************************************)

IdStart == Letters \cup {"_"}
IdChar == Letters \cup Digits \cup {"_", "-"}
WordSpace == Letters \cup Digits \cup {"_", " "}
Quotes == {"\"", "'"}

\* The last index of the longest run of characters of C that starts at i
\* (i - 1 when s[i] is not in C): a greedy `[C]*`.
RECURSIVE RunEnd(_, _, _)
RunEnd(s, i, C) ==
  IF i <= Len(s) /\ s[i] \in C THEN RunEnd(s, i + 1, C) ELSE i - 1

At(s, i) == IF i >= 1 /\ i <= Len(s) THEN s[i] ELSE ""

\* rgx_class matched at index i: the index of the match's last character,
\* 0 when there is no match at i.
rgx_class(s, i) ==
  IF At(s, i) \notin {".", "#"} THEN 0
  ELSE LET j == IF At(s, i + 1) = "-" /\ At(s, i + 2) \in IdStart
                THEN i + 2 ELSE i + 1
       IN IF At(s, j) \in IdStart THEN RunEnd(s, j, IdChar) ELSE 0

\* rgx_class.findall(s) from index i on
RECURSIVE FindAllClass(_, _)
FindAllClass(s, i) ==
  IF i > Len(s) THEN <<>>
  ELSE LET e == rgx_class(s, i)
       IN IF e > 0 THEN <<SubSeq(s, i, e)>> \o FindAllClass(s, e + 1)
          ELSE FindAllClass(s, i + 1)

\* rgx_n_attr matched at index i: [end |-> last index (0: no match), key, value]
rgx_n_attr(s, i) ==
  LET NoMatch == [end |-> 0, key |-> <<>>, value |-> <<>>]
      k1 == RunEnd(s, i + 1, IdChar)
      p == IF At(s, k1 + 2) \in Quotes THEN k1 + 3 ELSE k1 + 2
      v1 == RunEnd(s, p, WordSpace)
      q == IF At(s, v1 + 1) \in Quotes THEN v1 + 2 ELSE v1 + 1
  IN IF At(s, i) # "[" \/ k1 < i + 1 \/ At(s, k1 + 1) # "=" THEN NoMatch
     ELSE IF v1 < p \/ At(s, q) # "]" THEN NoMatch
     ELSE [end |-> q, key |-> SubSeq(s, i + 1, k1), value |-> SubSeq(s, p, v1)]

\* rgx_n_attr.findall(s) from index i on: a sequence of <<key, value>>
RECURSIVE FindAllAttr(_, _)
FindAllAttr(s, i) ==
  IF i > Len(s) THEN <<>>
  ELSE LET m == rgx_n_attr(s, i)
       IN IF m.end > 0 THEN <<<<m.key, m.value>>>> \o FindAllAttr(s, m.end + 1)
          ELSE FindAllAttr(s, i + 1)

K_id == <<"i", "d">>
K_class == <<"c", "l", "a", "s", "s">>
K_classes == <<"_", "c", "l", "a", "s", "s", "e", "s">>

\* The first loop of process_shortcut: the classes and the id.
RECURSIVE ClassLoop(_, _)
ClassLoop(ms, d) ==
  IF ms = <<>> THEN d
  ELSE LET match == Head(ms)
           d1 == IF Head(match) = "#"
                 THEN SetDefault(d, K_id, StrV(Strip(match, "#")))
                 ELSE LET d0 == SetDefault(d, K_classes, ListV(<<>>))
                      IN DictSet(d0, K_classes,
                           ListV(Append(d0[K_classes].v, Strip(match, "."))))
       IN ClassLoop(Tail(ms), d1)

\* The second loop of process_shortcut: the named attributes.
RECURSIVE AttrLoop(_, _)
AttrLoop(kvs, d) ==
  IF kvs = <<>> THEN d
  ELSE AttrLoop(Tail(kvs), SetDefault(d, Head(kvs)[1], StrV(Head(kvs)[2])))

\* ret_dict['class'] = ret_dict.pop('_classes', [])
PopClasses(d) ==
  DictSet(DictDel(d, K_classes), K_class,
          IF K_classes \in DOMAIN d THEN d[K_classes] ELSE ListV(<<>>))

\* process_shortcut(s): [exc |-> the exception raised ("" for none), val |-> dict]
process_shortcut(s) ==
  IF Count(s, "[") # Count(s, "]")
  THEN [exc |-> "MismatchedGrouping", val |-> EmptyDict]
  ELSE IF Count(s, "\"") % 2 # 0 \/ Count(s, "'") % 2 # 0
  THEN [exc |-> "MismatchedGrouping", val |-> EmptyDict]
  ELSE [exc |-> "",
        val |-> PopClasses(AttrLoop(FindAllAttr(s, 1),
                                    ClassLoop(FindAllClass(s, 1), EmptyDict)))]

(***************************************************************************)
(* Node.__call__                                                           *)
(***************************************************************************)

\* fix_key(k)
fix_key(k) == Replace(Strip(k, "_"), "_", "-")

\* check_val(v) of a string v: TRUE when it returns, FALSE when it raises
\* InvalidAttribute (it returns v itself).
check_val(v) == v = <<>> \/ ~\E c \in {" ", ".", ","} : Contains(v, c)

\* attrs = {fix_key(k): v for k, v in attrs.items()}; kw is the keyword
\* arguments in call order, a sequence of <<key, value>>.
RECURSIVE FixKeys(_, _)
FixKeys(kw, d) ==
  IF kw = <<>> THEN d
  ELSE FixKeys(Tail(kw), DictSet(d, fix_key(Head(kw)[1]), Head(kw)[2]))

\* The update the other way round: the keyword attributes win.
OverlayExplicitWins(attrs, processed) == DictUpdate(processed, attrs)

\* attr_clone = dict(attrs); attr_clone.update(processed)
Overlay(attrs, processed) == DictUpdate(attrs, processed)

\* Only the None values removed: `if v is None`.
DropNone(d) == [k \in {j \in DOMAIN d : d[j] # None} |-> d[k]]

\* for k, v in list(attr_clone.items()): if not v: attr_clone.pop(k, None)
DropFalsy(d) == [k \in {j \in DOMAIN d : Truthy(d[j])} |-> d[k]]

\* processed.get('class', []) + cur_classes
MergeClasses(processed_classes, cur_classes) == processed_classes \o cur_classes

\* processed = process_shortcut(_shortcut) if _shortcut is a non-empty str,
\* else {}: [exc, val]
Processed(shortcut) ==
  IF Truthy(shortcut) /\ shortcut.t = "str" THEN process_shortcut(shortcut.v)
  ELSE [exc |-> "", val |-> EmptyDict]

Raise(e) == [exc |-> e, attrs |-> EmptyDict]

DictGet(d, k, default) == IF k \in DOMAIN d THEN d[k] ELSE default

\* id_val = attr_clone.get('id', None)
\* if id_val: attr_clone['id'] = check_val(str(id_val))
\* and the removal of the falsy values
CallId(attr_clone, id_val) ==
  IF ~Truthy(id_val) THEN [exc |-> "", attrs |-> DropFalsy(attr_clone)]
  ELSE IF ~check_val(PyStr(id_val)) THEN Raise("InvalidAttribute")
  ELSE [exc |-> "", attrs |-> DropFalsy(DictSet(attr_clone, K_id, StrV(PyStr(id_val))))]

\* attr_clone['class'] = ' '.join(map(check_val, filter(None, all_classes)))
CallClass(attr_clone, classes) ==
  IF \E i \in 1..Len(classes) : ~check_val(classes[i]) THEN Raise("InvalidAttribute")
  ELSE CallId(DictSet(attr_clone, K_class, StrV(Join(classes, <<" ">>))),
              DictGet(attr_clone, K_id, None))

\* cur_classes = attrs.get('class', '').split(' ')
\* all_classes = processed.get('class', []) + cur_classes
\* attr_clone.update(processed)
CallMerge(attrs, processed, cur, pcls) ==
  IF cur.t # "str" THEN Raise("AttributeError")
  ELSE IF pcls.t # "list" THEN Raise("TypeError")
  ELSE CallClass(Overlay(attrs, processed),
                 FilterNonEmpty(MergeClasses(pcls.v, Split(cur.v))))

CallParsed(attrs, pr) ==
  IF pr.exc # "" THEN Raise(pr.exc)
  ELSE CallMerge(attrs, pr.val, DictGet(attrs, K_class, StrV(<<>>)),
                 DictGet(pr.val, K_class, ListV(<<>>)))

\* The body of Node.__call__(_shortcut, **attrs):
\* [exc |-> the exception raised ("" for none), attrs |-> the new node's attrs]
Node_call(shortcut, kw) == CallParsed(FixKeys(kw, EmptyDict), Processed(shortcut))

(***************************************************************************)
(* render                                                                  *)
(***************************************************************************)

VOID_TAGS ==
  { <<"a", "r", "e", "a">>, <<"b", "a", "s", "e">>, <<"b", "r">>,
    <<"c", "o", "l">>, <<"e", "m", "b", "e", "d">>, <<"h", "r">>,
    <<"i", "m", "g">>, <<"i", "n", "p", "u", "t">>,
    <<"k", "e", "y", "g", "e", "n">>, <<"l", "i", "n", "k">>,
    <<"m", "e", "t", "a">>, <<"p", "a", "r", "a", "m">>,
    <<"s", "o", "u", "r", "c", "e">>, <<"t", "r", "a", "c", "k">>,
    <<"w", "b", "r">> }

\* The rendered string is kept as a sequence of segments [kind, s]; the
\* string itself is their concatenation (Flat).  The kind records which
\* line of render emitted the segment: "markup" (the tag syntax and the
\* attribute names), "text" (an escaped str child), "raw" (a RawNode's
\* content), "attr" (an escaped attribute value), "rawattr" (a RawNode
\* attribute value).
Seg(kind, s) == [kind |-> kind, s |-> s]

RECURSIVE Flat(_)
Flat(segs) == IF segs = <<>> THEN <<>> ELSE Head(segs).s \o Flat(Tail(segs))

\* render_attr(key, value): [exc, out]
render_attr(key, value) ==
  IF key = <<>> \/ Contains(key, " ")
  THEN [exc |-> "InvalidAttribute", out |-> <<>>]
  ELSE IF Truthy(value)
  THEN [exc |-> "",
        out |-> << Seg("markup", key \o <<"=", "\"">>),
                   IF value.t = "raw" THEN Seg("rawattr", PyStr(value))
                   ELSE Seg("attr", html_escape(PyStr(value))),
                   Seg("markup", <<"\"">>) >>]
  ELSE [exc |-> "", out |-> <<Seg("markup", key)>>]

\* ' '.join(render_attr(k, node.attrs[k]) for k in attrs): [exc, out]
RECURSIVE render_attrs(_, _)
render_attrs(keys, d) ==
  IF keys = <<>> THEN [exc |-> "", out |-> <<>>]
  ELSE LET a == render_attr(Head(keys), d[Head(keys)])
           rest == render_attrs(Tail(keys), d)
       IN IF a.exc # "" THEN a
          ELSE IF rest.exc # "" THEN rest
          ELSE IF Tail(keys) = <<>> THEN a
          ELSE [exc |-> "", out |-> a.out \o <<Seg("markup", <<" ">>)>> \o rest.out]

\* The frames render may nest before the interpreter raises RecursionError.
\* Every tree without a cycle that the bounds allow renders within it.
MaxNodes == 2
RecursionLimit == 4 * MaxNodes + 2

\* render(x) in the heap state (nodes, gs): [exc, out, gens].  gs is the
\* generators' state, which iterating a generator advances; fuel the frames
\* left.
RECURSIVE render(_, _, _)
RECURSIVE render_each(_, _, _)
RECURSIVE render_gen(_, _, _)

\* ''.join(render(child) for child in node) for a tuple or a list
render_each(items, gs, fuel) ==
  IF items = <<>> THEN [exc |-> "", out |-> <<>>, gens |-> gs]
  ELSE LET r1 == render(Head(items), gs, fuel)
       IN IF r1.exc # "" THEN r1
          ELSE LET r2 == render_each(Tail(items), r1.gens, fuel)
               IN [exc |-> r2.exc, out |-> r1.out \o r2.out, gens |-> r2.gens]

\* ''.join(render(child) for child in node) for a generator g: each item is
\* taken from the generator (advancing it) and then rendered; a render of
\* the same generator nested in the item's takes the items that follow.
render_gen(g, gs, fuel) ==
  IF gs[g].pos >= Len(gs[g].items) THEN [exc |-> "", out |-> <<>>, gens |-> gs]
  ELSE LET r1 == render(gs[g].items[gs[g].pos + 1],
                        [gs EXCEPT ![g].pos = @ + 1], fuel)
       IN IF r1.exc # "" THEN r1
          ELSE LET r2 == render_gen(g, r1.gens, fuel)
               IN [exc |-> r2.exc, out |-> r1.out \o r2.out, gens |-> r2.gens]

render(x, gs, fuel) ==
  IF fuel = 0 THEN [exc |-> "RecursionError", out |-> <<>>, gens |-> gs]
  ELSE IF x.t = "none" THEN [exc |-> "", out |-> <<>>, gens |-> gs]
  ELSE IF x.t = "raw"
  THEN [exc |-> "", out |-> <<Seg("raw", x.v)>>, gens |-> gs]
  ELSE IF x.t \in {"tuple", "list"} THEN render_each(x.v, gs, fuel - 1)
  ELSE IF x.t = "gen" THEN render_gen(x.v, gs, fuel - 1)
  ELSE IF x.t = "str"
  THEN [exc |-> "", out |-> <<Seg("text", html_escape(x.v))>>, gens |-> gs]
  ELSE LET node == nodes[x.v]
           ch == IF Truthy(node.children)
                 THEN render(node.children, gs, fuel - 1)
                 ELSE [exc |-> "", out |-> <<>>, gens |-> gs]
           at == IF Truthy(node.attrs)
                 THEN render_attrs(Sorted(DOMAIN node.attrs.v), node.attrs.v)
                 ELSE [exc |-> "", out |-> <<>>]
           sp == IF at.out # <<>> THEN <<" ">> ELSE <<>>
       IN IF ch.exc # "" THEN ch
          ELSE IF at.exc # "" THEN [exc |-> at.exc, out |-> <<>>, gens |-> ch.gens]
          ELSE IF node.tag \in VOID_TAGS
          THEN [exc |-> "", gens |-> ch.gens,
                out |-> <<Seg("markup", <<"<">> \o node.tag \o sp)>> \o at.out
                        \o <<Seg("markup", <<"/", ">">>)>>]
          ELSE [exc |-> "", gens |-> ch.gens,
                out |-> <<Seg("markup", <<"<">> \o node.tag \o sp)>> \o at.out
                        \o <<Seg("markup", <<">">>)>> \o ch.out
                        \o <<Seg("markup", <<"<", "/">> \o node.tag \o <<">">>)>>]

(***************************************************************************)
(* The heap and the public operations                                      *)
(***************************************************************************)

MaxGens == 1
MaxPieces == 2

T_div == <<"d", "i", "v">>
T_hr == <<"h", "r">>
T_input == <<"i", "n", "p", "u", "t">>
K_title == <<"t", "i", "t", "l", "e">>

\* Node.__init__(tag, attrs=None, children=None) on the heap h
Node_init(h, tag, attrs, children) ==
  Append(h, [tag |-> tag, attrs |-> attrs, children |-> children])

\* The receiver given the new attributes and returned:
\* `self.attrs = attr_clone; return self`.
CallResultInPlace(h, n, attr_clone) ==
  [heap |-> [h EXCEPT ![n].attrs = DictV(attr_clone)], res |-> n]

\* return Node(self.tag, attr_clone): the heap after the call and the node
\* returned
CallResult(h, n, attr_clone) ==
  [heap |-> Node_init(h, h[n].tag, DictV(attr_clone), None), res |-> Len(h) + 1]

\* The children tested for truth instead: `if self.children:`.
ChildrenTruthy(c) == Truthy(c)

\* self.children is not None
ChildrenAssigned(c) == c # None

\* The void tag test left out of Node.__truediv__.
CannotHaveChildrenUnchecked(tag) == FALSE

\* self.tag in VOID_TAGS, as Node.__truediv__ tests it
CannotHaveChildren(tag) == tag \in VOID_TAGS

\* if type(children) not in (tuple, list): children = (children,)
AsSequence(children) ==
  IF children.t \notin {"tuple", "list"} THEN TupleV(<<children>>) ELSE children

\* What `last` records of the latest operation: the operation, its receiver,
\* its argument, the exception it raised ("" for none), the node it returned,
\* the receiver's children before it, and for str(node) the string returned,
\* with the outcome of the str(node) of the same node right before it, if any.
NoLast ==
  [op |-> "init", node |-> 0, arg |-> None, exc |-> "", res |-> 0, pre |-> None,
   out |-> <<>>, again |-> FALSE, prevExc |-> "", prevOut |-> <<>>]

Init ==
  /\ nodes = <<>>
  /\ gens = <<>>
  /\ last = NoLast

\* L.<tag>: _L.__getattr__
GetAttr(tag) ==
  /\ Len(nodes) < MaxNodes
  /\ nodes' = Node_init(nodes, tag, None, None)
  /\ last' = [NoLast EXCEPT !.op = "getattr", !.arg = tag, !.res = Len(nodes) + 1]
  /\ UNCHANGED gens

\* nodes[n](shortcut, **kw): Node.__call__, r the outcome of its body
CallRecord(n, shortcut, kw) ==
  [NoLast EXCEPT !.op = "call", !.node = n,
                 !.arg = [shortcut |-> shortcut, kw |-> kw]]

CallReturn(n, shortcut, kw, c) ==
  /\ Len(nodes) < MaxNodes
  /\ nodes' = c.heap
  /\ last' = [CallRecord(n, shortcut, kw) EXCEPT !.res = c.res]
  /\ UNCHANGED gens

CallOutcome(n, shortcut, kw, r) ==
  IF r.exc # ""
  THEN /\ last' = [CallRecord(n, shortcut, kw) EXCEPT !.exc = r.exc]
       /\ UNCHANGED <<nodes, gens>>
  ELSE CallReturn(n, shortcut, kw, CallResult(nodes, n, r.attrs))

Call(n, shortcut, kw) ==
  /\ n \in 1..Len(nodes)
  /\ CallOutcome(n, shortcut, kw, Node_call(shortcut, kw))

\* nodes[n] / children: Node.__truediv__
Truediv(n, children) ==
  LET rec == [NoLast EXCEPT !.op = "truediv", !.node = n, !.arg = children,
                            !.pre = nodes[n].children]
  IN /\ n \in 1..Len(nodes)
     /\ IF ChildrenAssigned(nodes[n].children) \/ CannotHaveChildren(nodes[n].tag)
        THEN /\ last' = [rec EXCEPT !.exc = "LyxException"]
             /\ UNCHANGED <<nodes, gens>>
        ELSE /\ nodes' = [nodes EXCEPT ![n].children = AsSequence(children)]
             /\ last' = [rec EXCEPT !.res = n]
             /\ UNCHANGED gens

\* str(nodes[n]): Node.__str__, render(self)
Str(n) ==
  LET r == render(NodeV(n), gens, RecursionLimit)
      again == last.op = "str" /\ last.node = n
  IN /\ n \in 1..Len(nodes)
     /\ gens' = r.gens
     /\ last' = [NoLast EXCEPT !.op = "str", !.node = n, !.exc = r.exc,
                   !.out = IF r.exc = "" THEN r.out ELSE <<>>,
                   !.again = again,
                   !.prevExc = IF again THEN last.exc ELSE "",
                   !.prevOut = IF again THEN last.out ELSE <<>>]
     /\ UNCHANGED nodes

\* A generator object the caller makes, (x for x in items), not yet advanced.
NewGenerator(items) ==
  /\ Len(gens) < MaxGens
  /\ gens' = Append(gens, [items |-> items, pos |-> 0])
  /\ last' = [NoLast EXCEPT !.op = "generator", !.res = Len(gens) + 1]
  /\ UNCHANGED nodes

\* process_shortcut(s) called on its own
ProcessShortcut(s) ==
  LET r == process_shortcut(s)
  IN /\ last' = [NoLast EXCEPT !.op = "process_shortcut", !.arg = s,
                               !.exc = r.exc, !.out = r.val]
     /\ UNCHANGED <<nodes, gens>>

\* The arguments the operations are given.
Tags == {T_div, T_hr}

Shortcuts == {None, StrV(<<".", "a">>)}

Kwargs ==
  { <<>>,
    << <<K_title, StrV(<<"<", "\"">>)>> >>,
    << <<<<"_">>, StrV(<<"x">>)>> >> }

Children ==
  {None, StrV(<<"<", "&">>), ListV(<<>>), TupleV(<<>>)}
    \cup {NodeV(m) : m \in 1..Len(nodes)}
    \cup {GenV(g) : g \in 1..Len(gens)}
    \cup {ListV(<<RawV(<<"<">>), TupleV(<<StrV(<<">", "\"", "'">>), NodeV(m)>>)>>) :
            m \in 1..Len(nodes)}

GenItems ==
  {<<StrV(<<"a">>)>>} \cup {<<NodeV(m), StrV(<<"<">>)>> : m \in 1..Len(nodes)}

Next ==
  \/ \E tag \in Tags : GetAttr(tag)
  \/ \E n \in 1..Len(nodes), sc \in Shortcuts, kw \in Kwargs : Call(n, sc, kw)
  \/ \E n \in 1..Len(nodes), c \in Children : Truediv(n, c)
  \/ \E n \in 1..Len(nodes) : Str(n)
  \/ \E items \in GenItems : NewGenerator(items)

Spec == Init /\ [][Next]_vars

\* The same operations without generators, the attribute-call given one
\* keyword attribute.
TreeKwargs == { << <<K_title, StrV(<<"<", "\"">>)>> >> }

NextTree ==
  \/ \E tag \in Tags : GetAttr(tag)
  \/ \E n \in 1..Len(nodes), kw \in TreeKwargs : Call(n, None, kw)
  \/ \E n \in 1..Len(nodes), c \in Children : Truediv(n, c)
  \/ \E n \in 1..Len(nodes) : Str(n)

SpecTree == Init /\ [][NextTree]_vars

(***************************************************************************)
(* Node.__call__ and process_shortcut on their own: the initial state      *)
(* holds one receiver and one pending invocation, drawn from the sets      *)
(* below, and the actions perform it.                                      *)
(***************************************************************************)

Pieces ==
  { <<".", "a">>, <<".", "b">>, <<"#", "x">>, <<"#", "v">>,
    <<"[", "k", "=", "v", "]">>,
    <<"[", "i", "d", "=", "q", "]">>,
    <<"[", "i", "d", "=", "a", " ", "b", "]">>,
    <<"[", "c", "l", "a", "s", "s", "=", "c", "]">>,
    <<"[", "_", "c", "l", "a", "s", "s", "e", "s", "=", "c", "]">>,
    <<"[">> }

\* The strings made of at most n pieces.
RECURSIVE PieceStrings(_)
PieceStrings(n) ==
  IF n = 0 THEN {<<>>}
  ELSE LET S == PieceStrings(n - 1) IN S \cup {s \o q : s \in S, q \in Pieces}

CallShortcuts == {None} \cup {StrV(s) : s \in PieceStrings(MaxPieces)}

K_k == <<"k">>
K_disabled == <<"d", "i", "s", "a", "b", "l", "e", "d">>

CallKwargs ==
  { <<>>,
    << <<K_class, StrV(<<"c", " ", "d">>)>> >>,
    << <<<<"c", "l", "a", "s", "s", "_">>, StrV(<<"b", " ", " ", "a">>)>> >>,
    << <<K_class, StrV(<<"a", ".", "b">>)>> >>,
    << <<K_class, IntV(0)>> >>,
    << <<K_id, StrV(<<"w">>)>> >>,
    << <<K_id, StrV(<<"w">>)>>, <<K_class, StrV(<<"d">>)>> >>,
    << <<K_id, IntV(0)>> >>,
    << <<K_id, RawV(<<>>)>> >>,
    << <<K_k, StrV(<<"e">>)>> >>,
    << <<K_k, StrV(<<>>)>> >>,
    << <<K_k, IntV(0)>>, <<K_title, BoolV(FALSE)>> >>,
    << <<K_k, ListV(<<>>)>>, <<K_title, IntV(1)>> >>,
    << <<K_disabled, StrV(<<>>)>> >>,
    << <<<<"_">>, StrV(<<"x">>)>> >>,
    << <<<<"a", " ", "b">>, StrV(<<"x">>)>> >>,
    << <<<<"_", "k", "_">>, StrV(<<"e">>)>>, <<K_k, BoolV(TRUE)>> >> }

Receivers ==
  { [tag |-> T_div, attrs |-> None, children |-> None],
    [tag |-> T_input, attrs |-> None, children |-> None],
    [tag |-> T_div, attrs |-> DictV(DictSet(EmptyDict, K_class, StrV(<<"a">>))),
     children |-> TupleV(<<StrV(<<"x">>)>>)] }

InitCall ==
  /\ nodes \in {<<r>> : r \in Receivers}
  /\ gens = <<>>
  /\ last \in {[NoLast EXCEPT !.op = "pending",
                              !.arg = [shortcut |-> sc, kw |-> kw]] :
                 sc \in CallShortcuts, kw \in CallKwargs}

CallPending ==
  /\ last.op = "pending"
  /\ Call(1, last.arg.shortcut, last.arg.kw)

ShortcutPending ==
  /\ last.op = "pending"
  /\ last.arg.shortcut.t = "str"
  /\ ProcessShortcut(last.arg.shortcut.v)

NextCall == CallPending \/ ShortcutPending

SpecCall == InitCall /\ [][NextCall]_vars

(***************************************************************************)
(* Properties                                                              *)
(***************************************************************************)

Live == 1..Len(nodes)
IsSequence(c) == c.t \in {"tuple", "list"}

\* C1: the children slot of a node changes at most once, from unset to a
\* sequence: once it is set, no step changes it, and a `/` on that node
\* raises LyxException, whatever the first and the second argument were.
C1_ChildrenOnce ==
  [][\A n \in Live :
       /\ nodes[n].children # None =>
            /\ nodes'[n].children = nodes[n].children
            /\ (last'.op = "truediv" /\ last'.node = n
                  => last'.exc = "LyxException" /\ last'.pre = nodes[n].children)
       /\ nodes'[n].children # nodes[n].children =>
            /\ nodes[n].children = None
            /\ IsSequence(nodes'[n].children)
            /\ last'.op = "truediv" /\ last'.node = n /\ last'.exc = ""]_vars

\* C1 witness: a second `/` was refused on a node whose first `/` assigned
\* an empty list, an empty tuple or a single None child.
C1_Witness ==
  /\ last.op = "truediv"
  /\ last.exc = "LyxException"
  /\ last.pre \in {ListV(<<>>), TupleV(<<>>), TupleV(<<None>>)}
  /\ nodes[last.node].children = last.pre

\* C2: a node whose tag is in VOID_TAGS has its children unset; every `/` on
\* it raises LyxException; the string str() returns for it is `<tag attrs/>`
\* with no closing tag.
C2_VoidTag ==
  /\ \A n \in Live : nodes[n].tag \in VOID_TAGS => nodes[n].children = None
  /\ (last.op = "truediv" /\ nodes[last.node].tag \in VOID_TAGS)
       => last.exc = "LyxException"
  /\ (last.op = "str" /\ last.exc = "" /\ nodes[last.node].tag \in VOID_TAGS)
       => LET s == Flat(last.out)
              tag == nodes[last.node].tag
          IN /\ SubSeq(s, 1, Len(tag) + 1) = <<"<">> \o tag
             /\ SubSeq(s, Len(s) - 1, Len(s)) = <<"/", ">">>
             /\ Count(s, "<") = 1
             /\ (nodes[last.node].attrs = None => s = <<"<">> \o tag \o <<"/", ">">>)

\* C2 witness: a `/` was refused on a void node that an attribute-call made.
C2_Witness ==
  /\ last.op = "truediv"
  /\ last.exc = "LyxException"
  /\ nodes[last.node].tag = T_hr
  /\ nodes[last.node].attrs # None
  /\ last.arg # None

Entities ==
  { <<"&", "a", "m", "p", ";">>, <<"&", "l", "t", ";">>, <<"&", "g", "t", ";">>,
    <<"&", "q", "u", "o", "t", ";">>, <<"&", "#", "x", "2", "7", ";">> }

\* No `<`, `>`, `"` or `'` in s, and every `&` of s starts an entity.
EntitiesOnly(s) ==
  \A i \in 1..Len(s) :
    /\ s[i] \notin {"<", ">", "\"", "'"}
    /\ s[i] = "&" => \E e \in Entities : SubSeq(s, i, i + Len(e) - 1) = e

\* C3: in the string str() returns, what a plain-string text child and a
\* truthy non-raw attribute value contribute holds none of & < > " '
\* literally, at any depth; only raw() content is emitted as it is.
C3_Escaped ==
  (last.op = "str" /\ last.exc = "") =>
    \A i \in 1..Len(last.out) :
      /\ last.out[i].kind \in {"text", "attr"} => EntitiesOnly(last.out[i].s)
      /\ last.out[i].kind \in {"raw", "rawattr"} => last.out[i].s = <<"<">>

\* C3 witness: a rendered string with an escaped attribute value, an escaped
\* text child of a nested node, and raw content.
C3_Witness ==
  /\ last.op = "str"
  /\ last.exc = ""
  /\ \E i, j, k \in 1..Len(last.out) :
       /\ i < k /\ k < j
       /\ last.out[i].kind = "attr"
       /\ last.out[i].s = <<"&", "l", "t", ";", "&", "q", "u", "o", "t", ";">>
       /\ last.out[k].kind = "raw"
       /\ last.out[j].kind = "text"
       /\ last.out[j].s = <<"&", "l", "t", ";", "&", "a", "m", "p", ";">>

\* The explicit keyword attributes of the latest attribute-call after key
\* normalization, and what its shorthand parsed to.
LastExplicit == FixKeys(last.arg.kw, EmptyDict)
LastParsed == Processed(last.arg.shortcut).val
LastAttrs == nodes[last.res].attrs.v
ClassTokens(d) == IF K_class \in DOMAIN d THEN Split(d[K_class].v) ELSE <<>>

\* C4: a key other than `class` that the shorthand and the keyword
\* attributes both give carries the shorthand's value in the returned node;
\* the node's class is the shorthand's class tokens followed by the keyword
\* attribute's tokens.
C4_ShorthandWins ==
  (last.op = "call" /\ last.exc = "") =>
    /\ \A k \in (DOMAIN LastParsed \cap DOMAIN LastExplicit) \ {K_class} :
         k \in DOMAIN LastAttrs /\ LastAttrs[k] = LastParsed[k]
    /\ ClassTokens(LastAttrs)
         = DictGet(LastParsed, K_class, ListV(<<>>)).v
             \o FilterNonEmpty(ClassTokens(LastExplicit))

\* C4 witness: #x against id="w" and .a against class="d" gave id x and
\* class "a d".
C4_Witness ==
  /\ last.op = "call"
  /\ last.exc = ""
  /\ DOMAIN LastExplicit = {K_id, K_class}
  /\ LastExplicit[K_id] = StrV(<<"w">>)
  /\ LastExplicit[K_class] = StrV(<<"d">>)
  /\ DOMAIN LastAttrs = {K_id, K_class}
  /\ LastAttrs[K_id] = StrV(<<"x">>)
  /\ LastAttrs[K_class] = StrV(<<"a", " ", "d">>)

\* C5: str() of a node called twice in a row returns the same string both
\* times.
C5_RenderTwice ==
  (last.op = "str" /\ last.again /\ last.prevExc = "") =>
    (last.exc = "" /\ last.out = last.prevOut)

\* C6: a `/` given a generator consumes it at once and stores a fixed
\* sequence of its elements, so that no str() advances a generator.
C6_Materialized ==
  (last.op = "truediv" /\ last.exc = "" /\ last.arg.t = "gen") =>
    /\ gens[last.arg.v].pos = Len(gens[last.arg.v].items)
    /\ IsSequence(nodes[last.node].children)
    /\ nodes[last.node].children.v = gens[last.arg.v].items

\* C7: the attribute-call, whether it returns or raises, leaves every
\* existing node as it was; the node it returns is a new one, with the
\* receiver's tag, a mapping for its attributes and its children unset.
C7_CallFrame ==
  [][last'.op = "call" =>
       /\ \A n \in Live : nodes'[n] = nodes[n]
       /\ last'.exc # "" => nodes' = nodes /\ last'.res = 0
       /\ last'.exc = "" =>
            /\ last'.res \notin Live
            /\ DOMAIN nodes' = Live \cup {last'.res}
            /\ nodes'[last'.res].tag = nodes[last'.node].tag
            /\ nodes'[last'.res].attrs.t = "dict"
            /\ nodes'[last'.res].children = None]_vars

\* C7 witness: the attribute-call returned a node for a receiver that has
\* attributes and children.
C7_Witness ==
  /\ last.op = "call"
  /\ last.exc = ""
  /\ nodes[last.node].attrs # None
  /\ nodes[last.node].children # None
  /\ LastAttrs # nodes[last.node].attrs.v

\* C8: the node the attribute-call returns has only truthy attribute
\* values: a keyword attribute that is falsy and that the shorthand does not
\* give is absent, and input(disabled="") renders as <input/>.
C8_NoFalsy ==
  (last.op = "call" /\ last.exc = "") =>
    /\ \A k \in DOMAIN LastAttrs : Truthy(LastAttrs[k])
    /\ \A k \in DOMAIN LastExplicit \ (DOMAIN LastParsed \cup {K_class}) :
         ~Truthy(LastExplicit[k]) => k \notin DOMAIN LastAttrs
    /\ (K_class \in DOMAIN LastAttrs) = (ClassTokens(LastAttrs) # <<>>)
    /\ (nodes[last.res].tag = T_input /\ DOMAIN LastExplicit = {K_disabled}
          /\ ~Truthy(last.arg.shortcut))
         => Flat(render(NodeV(last.res), gens, RecursionLimit).out)
              = <<"<", "i", "n", "p", "u", "t", "/", ">">>

\* C8 witness: input(disabled="") returned a node without attributes.
C8_Witness ==
  /\ last.op = "call"
  /\ last.exc = ""
  /\ nodes[last.res].tag = T_input
  /\ last.arg.kw = << <<K_disabled, StrV(<<>>)>> >>
  /\ last.arg.shortcut = None
  /\ DOMAIN LastAttrs = {}

InvalidKey(k) == k = <<>> \/ Contains(k, " ")

\* C9: an attribute-call with a keyword attribute whose normalized key is
\* empty or holds a space raises InvalidAttribute and returns no node.
C9_KeyRejected ==
  (last.op = "call" /\ \E k \in DOMAIN LastExplicit : InvalidKey(k)) =>
    (last.exc = "InvalidAttribute" /\ last.res = 0)

\* The `.` tokens of s in scan order, without the dot.
RECURSIVE DotTokens(_)
DotTokens(ms) ==
  IF ms = <<>> THEN <<>>
  ELSE IF Head(Head(ms)) = "." THEN <<Tail(Head(ms))>> \o DotTokens(Tail(ms))
  ELSE DotTokens(Tail(ms))

\* C10: process_shortcut, when it returns, gives `class` as the list of the
\* `.` tokens of the string in scan order, whatever else the string holds.
C10_ClassList ==
  (last.op = "process_shortcut" /\ last.exc = "") =>
    last.out[K_class] = ListV(DotTokens(FindAllClass(last.arg, 1)))

====
